---- MODULE Spec2Model ----
(***************************************************************************)
(* Model of the ConvertKit client (src/convertkit/convertkit.go):          *)
(*   - Client.Subscribers: page 1 synchronously, then one goroutine per    *)
(*     page 2..total under an errgroup.Group, gated by a buffered channel  *)
(*     of capacity config.ConcurrentRequests, merged by page index;        *)
(*   - Client.subscriberPage: credential check, URL/date check, HTTP GET;  *)
(*   - SubscriptionRequest.AddTag.                                         *)
(* A Go slice is modelled as a sequence; the nil slice and the empty slice *)
(* are both <<>> (they are indistinguishable to len, range and append).    *)
(***************************************************************************)
EXTENDS Integers, Sequences, FiniteSets, TLC

\* ---- bounds of the model ------------------------------------------------
MaxPages == 4        \* largest total_pages the server reports
MaxLimit == 2        \* largest ConcurrentRequests passed to NewClient
MaxTag == 3          \* tag identifiers are 1..MaxTag
MaxAdds == 3         \* number of AddTag calls explored
MaxInitLen == 2      \* length of Tags a caller may have set before AddTag

\* ---- program constants --------------------------------------------------
DefaultConcurrentRequests == 8

VARIABLES
    Secret,     \* c.config.Secret
    Limit,      \* c.config.ConcurrentRequests (after NewClient)
    query,      \* the *SubscriberQuery argument: "valid" (nil, or dates that parse) or "baddate"
    pc,         \* position of the goroutine running Subscribers
    p,          \* p of line 148
    total,      \* total of line 153
    pages,      \* pages of line 161, indexed 0..total-1 ( <<>> before make )
    limiter,    \* contents of the channel of line 159
    i,          \* loop variable of line 164
    wg,         \* errgroup.Group: number of goroutines not yet done
    gerr,       \* errgroup.Group: first error reported
    wpc,        \* position of the goroutine for each page
    wp,         \* p of line 170, per goroutine
    werr,       \* err of line 170, per goroutine
    ret,        \* what Subscribers returned
    calls,      \* history: number of subscriberPage calls per page
    http,       \* history: number of HTTP requests sent per page
    served,     \* history: outcome of the fetch of each page
    writes,     \* history: writes[w][s] = assignments to pages[s] by the goroutine of page w
    acquired,   \* history: limiter sends completed per goroutine
    released,   \* history: limiter receives completed per goroutine
    outOfOrder, \* history: some page's fetch completed before that of a lower page
    Tags,       \* r.Tags of a SubscriptionRequest
    Tags0,      \* history: r.Tags before the first AddTag
    addLog      \* history: arguments of the AddTag calls, in order

subVars == <<Secret, Limit, query, pc, p, total, pages, limiter, i, wg, gerr,
             wpc, wp, werr, ret, calls, http, served, writes, acquired, released,
             outOfOrder>>
tagVars == <<Tags, Tags0, addLog>>
vars == <<subVars, tagVars>>

PageIdx == 1..MaxPages
Workers == 2..MaxPages
TagIds == 1..MaxTag

\* ---- values ---------------------------------------------------------------
NoErr == [kind |-> "nil", page |-> 0]
ErrSecretMissing == [kind |-> "ErrSecretMissing", page |-> 0]
ParseError(page) == [kind |-> "ParseError", page |-> page]
RequestError(page) == [kind |-> "RequestError", page |-> page]

ZeroPage == [TotalPages |-> 0, Subscribers |-> <<>>]
\* The subscribers the server holds for a page: two records, distinct per page.
Items(page) == <<2 * page, 2 * page - 1>>
NoOutcome == [done |-> FALSE, page |-> ZeroPage, err |-> NoErr]
NotReturned == [returned |-> FALSE, subscribers |-> <<>>, err |-> NoErr]

\* NewClient: a zero ConcurrentRequests is replaced by the default.
NewClient(concurrentRequests) ==
    IF concurrentRequests = 0 THEN DefaultConcurrentRequests ELSE concurrentRequests

\* subscriberPage up to the HTTP request: the error it returns without
\* sending anything, or NoErr when the request is sent.
subscriberPagePreMut(page) ==
    IF query = "baddate" THEN ParseError(page) ELSE NoErr
subscriberPagePre(page) ==
    IF Secret = "" THEN ErrSecretMissing
    ELSE IF query = "baddate" THEN ParseError(page)
    ELSE NoErr

\* What sendRequest can deliver for a page: an error, or a decoded page.
Responses(page, totals, itemSeqs) ==
    {[done |-> TRUE, page |-> ZeroPage, err |-> RequestError(page)]}
    \cup {[done |-> TRUE, page |-> [TotalPages |-> t, Subscribers |-> s], err |-> NoErr] :
             t \in totals, s \in itemSeqs}

Failed(pre) == [done |-> TRUE, page |-> ZeroPage, err |-> pre]
Return(subscribers, err) == [returned |-> TRUE, subscribers |-> subscribers, err |-> err]

RECURSIVE MergeMut(_, _)
MergeMut(pgs, n) ==
    IF n = 0 THEN <<>> ELSE pgs[n - 1].Subscribers \o MergeMut(pgs, n - 1)
RECURSIVE Merge(_, _)
\* lines 182-185: append pages[0..n-1].Subscribers in index order.
Merge(pgs, n) ==
    IF n = 0 THEN <<>> ELSE Merge(pgs, n - 1) \o pgs[n - 1].Subscribers

RECURSIVE Contains(_, _)
Contains(tags, t) ==
    IF tags = <<>> THEN FALSE
    ELSE IF Head(tags) = t THEN TRUE ELSE Contains(Tail(tags), t)

\* SubscriptionRequest.AddTag as a function of r.Tags.
AddTagOpMut(tags, newTag) == Append(tags, newTag)
AddTagOp(tags, newTag) ==
    IF Contains(tags, newTag) THEN tags ELSE Append(tags, newTag)

\* ---- initial states -------------------------------------------------------
IdleSubscribers ==
    /\ pc = "start"
    /\ p = ZeroPage
    /\ total = 0
    /\ pages = <<>>
    /\ limiter = <<>>
    /\ i = 0
    /\ wg = 0
    /\ gerr = NoErr
    /\ wpc = [w \in Workers |-> "idle"]
    /\ wp = [w \in Workers |-> ZeroPage]
    /\ werr = [w \in Workers |-> NoErr]
    /\ ret = NotReturned
    /\ calls = [n \in PageIdx |-> 0]
    /\ http = [n \in PageIdx |-> 0]
    /\ served = [n \in PageIdx |-> NoOutcome]
    /\ writes = [w \in PageIdx |-> [s \in 0..(MaxPages - 1) |-> 0]]
    /\ acquired = [w \in Workers |-> 0]
    /\ released = [w \in Workers |-> 0]
    /\ outOfOrder = FALSE

Init ==
    /\ Secret \in {"", "secret"}
    /\ \E c \in 0..MaxLimit : Limit = NewClient(c)
    /\ query \in {"valid", "baddate"}
    /\ IdleSubscribers
    /\ Tags = <<>> /\ Tags0 = <<>> /\ addLog = <<>>

\* ---- Client.Subscribers: the calling goroutine ---------------------------

\* line 149: if err != nil
Page1FailedMut(e) == FALSE
Page1Failed(e) == e # NoErr

\* line 154: if total <= 1
NoMorePages(t) == t <= 1

\* line 155: return p.Subscribers, nil
EarlyResultMut(pg) == <<>>
EarlyResult(pg) == pg.Subscribers

\* line 148, first half: subscriberPage(1, query) up to sending the request.
CallPage1 ==
    /\ pc = "start"
    /\ calls' = [calls EXCEPT ![1] = @ + 1]
    /\ LET pre == subscriberPagePre(1) IN
        IF pre # NoErr
        THEN /\ served' = [served EXCEPT ![1] = Failed(pre)]
             /\ IF Page1Failed(pre)
                THEN /\ ret' = Return(<<>>, pre)
                     /\ pc' = "done"
                ELSE /\ pc' = "total"
                     /\ ret' = ret
             /\ http' = http
        ELSE /\ http' = [http EXCEPT ![1] = @ + 1]
             /\ pc' = "inflight"
             /\ UNCHANGED <<served, ret>>
    /\ UNCHANGED <<Secret, Limit, query, p, total, pages, limiter, i, wg, gerr, wpc,
                   wp, werr, writes, acquired, released, outOfOrder, tagVars>>

\* line 148, second half, and lines 149-151: the response to page 1.
RecvPage1 ==
    /\ pc = "inflight"
    /\ \E r \in Responses(1, (-1)..MaxPages, {Items(1), <<>>}) :
        /\ served' = [served EXCEPT ![1] = r]
        /\ IF Page1Failed(r.err)
           THEN /\ ret' = Return(<<>>, r.err)
                /\ pc' = "done"
                /\ p' = p
           ELSE /\ p' = r.page
                /\ pc' = "total"
                /\ ret' = ret
    /\ UNCHANGED <<Secret, Limit, query, total, pages, limiter, i, wg, gerr, wpc, wp,
                   werr, calls, http, writes, acquired, released, outOfOrder, tagVars>>

\* lines 153-164: total, the early return, make(chan), make([]subscriberPage),
\* pages[0] = *p and the loop initialisation.
CheckTotal ==
    /\ pc = "total"
    /\ total' = p.TotalPages
    /\ IF NoMorePages(p.TotalPages)
       THEN /\ ret' = Return(EarlyResult(p), NoErr)
            /\ pc' = "done"
            /\ UNCHANGED <<pages, limiter, i, writes>>
       ELSE /\ limiter' = <<>>
            /\ pages' = [s \in 0..(p.TotalPages - 1) |-> IF s = 0 THEN p ELSE ZeroPage]
            /\ writes' = [writes EXCEPT ![1][0] = @ + 1]
            /\ i' = 2
            /\ pc' = "loop"
            /\ ret' = ret
    /\ UNCHANGED <<Secret, Limit, query, p, wg, gerr, wpc, wp, werr, calls, http,
                   served, acquired, released, outOfOrder, tagVars>>

\* lines 164-176: one iteration of the loop; g.Go starts the goroutine for page i.
Go ==
    /\ pc = "loop"
    /\ i <= total
    /\ wg' = wg + 1
    /\ wpc' = [wpc EXCEPT ![i] = "acquire"]
    /\ i' = i + 1
    /\ UNCHANGED <<Secret, Limit, query, pc, p, total, pages, limiter, gerr, wp, werr,
                   ret, calls, http, served, writes, acquired, released, outOfOrder,
                   tagVars>>

\* g.Wait blocks until every goroutine started by g.Go has returned.
WaitReadyMut(n) == TRUE
WaitReady(n) == n = 0

\* lines 178-180: g.Wait() after the loop, and the error return.
Wait ==
    /\ pc = "loop"
    /\ i > total
    /\ WaitReady(wg)
    /\ IF gerr # NoErr
       THEN /\ ret' = Return(<<>>, gerr)
            /\ pc' = "done"
       ELSE /\ pc' = "merge"
            /\ ret' = ret
    /\ UNCHANGED <<Secret, Limit, query, p, total, pages, limiter, i, wg, gerr, wpc, wp,
                   werr, calls, http, served, writes, acquired, released, outOfOrder,
                   tagVars>>

\* lines 182-187: the merge loop and the return.
MergePages ==
    /\ pc = "merge"
    /\ ret' = Return(Merge(pages, total), NoErr)
    /\ pc' = "done"
    /\ UNCHANGED <<Secret, Limit, query, p, total, pages, limiter, i, wg, gerr, wpc, wp,
                   werr, calls, http, served, writes, acquired, released, outOfOrder,
                   tagVars>>

\* ---- Client.Subscribers: the goroutine for page w -------------------------

\* A send on a buffered channel proceeds while the buffer is not full.
CanSendMut(len) == len <= Limit
CanSend(len) == len < Limit

\* line 167: limiter <- true
Acquire(w) ==
    /\ wpc[w] = "acquire"
    /\ CanSend(Len(limiter))
    /\ limiter' = Append(limiter, TRUE)
    /\ acquired' = [acquired EXCEPT ![w] = @ + 1]
    /\ wpc' = [wpc EXCEPT ![w] = "call"]
    /\ UNCHANGED <<Secret, Limit, query, pc, p, total, pages, i, wg, gerr, wp, werr, ret,
                   calls, http, served, writes, released, outOfOrder, tagVars>>

\* line 170, first half: subscriberPage(i, query) up to sending the request.
Call(w) ==
    /\ wpc[w] = "call"
    /\ calls' = [calls EXCEPT ![w] = @ + 1]
    /\ LET pre == subscriberPagePre(w) IN
        IF pre # NoErr
        THEN /\ served' = [served EXCEPT ![w] = Failed(pre)]
             /\ werr' = [werr EXCEPT ![w] = pre]
             /\ wpc' = [wpc EXCEPT ![w] = "store"]
             /\ http' = http
        ELSE /\ http' = [http EXCEPT ![w] = @ + 1]
             /\ wpc' = [wpc EXCEPT ![w] = "inflight"]
             /\ UNCHANGED <<served, werr>>
    /\ UNCHANGED <<Secret, Limit, query, pc, p, total, pages, limiter, i, wg, gerr, wp,
                   ret, writes, acquired, released, outOfOrder, tagVars>>

\* line 170, second half: the response to page w.
Recv(w) ==
    /\ wpc[w] = "inflight"
    /\ \E r \in Responses(w, {total}, {Items(w)}) :
        /\ served' = [served EXCEPT ![w] = r]
        /\ wp' = [wp EXCEPT ![w] = r.page]
        /\ werr' = [werr EXCEPT ![w] = r.err]
    /\ outOfOrder' = (outOfOrder \/ \E v \in 2..(w - 1) : ~served[v].done)
    /\ wpc' = [wpc EXCEPT ![w] = "store"]
    /\ UNCHANGED <<Secret, Limit, query, pc, p, total, pages, limiter, i, wg, gerr, ret,
                   calls, http, writes, acquired, released, tagVars>>

\* line 172: the index written by the goroutine for page w.
SlotMut(w) == w - 2
Slot(w) == w - 1

\* lines 168 and 174: the deferred receive runs on every return.
AfterStoreMut(e) == IF e = NoErr THEN "release" ELSE "report"
AfterStore(e) == "release"

\* lines 171-174: if err == nil { pages[i-1] = *p }; return err
Store(w) ==
    /\ wpc[w] = "store"
    /\ IF werr[w] = NoErr
       THEN /\ pages' = [pages EXCEPT ![Slot(w)] = wp[w]]
            /\ writes' = [writes EXCEPT ![w][Slot(w)] = @ + 1]
       ELSE UNCHANGED <<pages, writes>>
    /\ wpc' = [wpc EXCEPT ![w] = AfterStore(werr[w])]
    /\ UNCHANGED <<Secret, Limit, query, pc, p, total, limiter, i, wg, gerr, wp, werr,
                   ret, calls, http, served, acquired, released, outOfOrder, tagVars>>

\* line 168: defer func() { <-limiter }()
Release(w) ==
    /\ wpc[w] = "release"
    /\ limiter' = Tail(limiter)
    /\ released' = [released EXCEPT ![w] = @ + 1]
    /\ wpc' = [wpc EXCEPT ![w] = "report"]
    /\ UNCHANGED <<Secret, Limit, query, pc, p, total, pages, i, wg, gerr, wp, werr, ret,
                   calls, http, served, writes, acquired, outOfOrder, tagVars>>

\* errgroup.Group keeps the first non-nil error a goroutine returns.
FirstErrMut(g, e) == e
FirstErr(g, e) == IF e # NoErr /\ g = NoErr THEN e ELSE g

\* line 166: the wrapper g.Go puts around the function: record the error, then done.
Report(w) ==
    /\ wpc[w] = "report"
    /\ gerr' = FirstErr(gerr, werr[w])
    /\ wg' = wg - 1
    /\ wpc' = [wpc EXCEPT ![w] = "done"]
    /\ UNCHANGED <<Secret, Limit, query, pc, p, total, pages, limiter, i, wp, werr, ret,
                   calls, http, served, writes, acquired, released, outOfOrder, tagVars>>

Next ==
    \/ CallPage1
    \/ RecvPage1
    \/ CheckTotal
    \/ Go
    \/ Wait
    \/ MergePages
    \/ \E w \in Workers : Acquire(w)
    \/ \E w \in Workers : Call(w)
    \/ \E w \in Workers : Recv(w)
    \/ \E w \in Workers : Store(w)
    \/ \E w \in Workers : Release(w)
    \/ \E w \in Workers : Report(w)

Spec == Init /\ [][Next]_vars

\* The Go scheduler runs every runnable goroutine and every request returns:
\* a step that can be taken is eventually taken.
FairSpec == Spec /\ WF_vars(Next)

TypeOK ==
    /\ pc \in {"start", "inflight", "total", "loop", "merge", "done"}
    /\ \A w \in Workers :
        wpc[w] \in {"idle", "acquire", "call", "inflight", "store", "release", "report", "done"}
    /\ wg \in 0..MaxPages
    /\ Len(limiter) \in 0..Limit

\* ---- SubscriptionRequest.AddTag --------------------------------------------

RECURSIVE SeqsUpTo(_, _)
\* All sequences over S of length at most n.
SeqsUpTo(S, n) ==
    IF n = 0 THEN {<<>>}
    ELSE LET shorter == SeqsUpTo(S, n - 1) IN
         shorter \cup {Append(q, x) : q \in shorter, x \in S}

\* A request whose exported Tags field holds any caller-chosen list.
TagInit ==
    /\ Secret = "secret"
    /\ Limit = NewClient(0)
    /\ query = "valid"
    /\ IdleSubscribers
    /\ Tags0 \in SeqsUpTo(TagIds, MaxInitLen)
    /\ Tags = Tags0
    /\ addLog = <<>>

\* lines 137-144: r.AddTag(newTag)
AddTag(newTag) ==
    /\ Len(addLog) < MaxAdds
    /\ Tags' = AddTagOp(Tags, newTag)
    /\ addLog' = Append(addLog, newTag)
    /\ UNCHANGED <<subVars, Tags0>>

TagNext == \E t \in TagIds : AddTag(t)

TagSpec == TagInit /\ [][TagNext]_vars

\* ---- properties ------------------------------------------------------------

\* Goroutines between the channel send of line 167 and the receive of line 168.
Holders == {w \in Workers : wpc[w] \in {"call", "inflight", "store", "release"}}

Page1OK == served[1].done /\ served[1].err = NoErr
ServerTotal == served[1].page.TotalPages
FailedPages == {n \in 2..ServerTotal : served[n].done /\ served[n].err # NoErr}

RECURSIVE ConcatServed(_)
\* The items the server returned for pages 1..n, in page order.
ConcatServed(n) ==
    IF n = 0 THEN <<>> ELSE ConcatServed(n - 1) \o served[n].page.Subscribers

\* C1: with T >= 2 pages and limit L >= 1, the number of goroutines holding a
\* limiter slot (which covers the whole call of subscriberPage) never exceeds L.
C1_AtMostLimit ==
    /\ Limit >= 1
    /\ Cardinality(Holders) <= Limit
    /\ Cardinality({w \in Workers : wpc[w] = "inflight"}) <= Limit
    /\ Len(limiter) <= Limit

C1_Witness ==
    /\ total >= 2
    /\ Cardinality(Holders) = Limit
    /\ \E w \in Workers : wpc[w] = "acquire"
    /\ \E w \in Holders : wpc[w] = "inflight"

\* C2: when page 1 and all pages 2..T were fetched successfully, Subscribers
\* returns the items of pages 1..T concatenated in page order, whatever the
\* order in which the fetches completed.
C2_MergedInPageOrder ==
    (/\ ret.returned
     /\ Page1OK
     /\ \A n \in 2..ServerTotal : served[n].done /\ served[n].err = NoErr)
    => /\ ret.err = NoErr
       /\ ret.subscribers = ConcatServed(IF ServerTotal >= 2 THEN ServerTotal ELSE 1)

C2_Witness ==
    /\ ret.returned
    /\ ret.err = NoErr
    /\ ServerTotal >= 3
    /\ outOfOrder
    /\ Len(ret.subscribers) = 2 * ServerTotal

\* C3: if the fetch of page 1 fails, Subscribers returns that error and no
\* subscribers, and nothing is done for pages 2..T: no goroutine, no slot, no fetch.
C3_Page1Failure ==
    (served[1].done /\ served[1].err # NoErr)
    => /\ ret = Return(<<>>, served[1].err)
       /\ pc = "done"
       /\ limiter = <<>>
       /\ \A w \in Workers :
            wpc[w] = "idle" /\ calls[w] = 0 /\ http[w] = 0 /\ acquired[w] = 0

C3_Witness ==
    /\ ret.returned
    /\ served[1].err = RequestError(1)
    /\ http[1] = 1

\* C4: if page 1 succeeds and reports T <= 1 (0 and negative included),
\* Subscribers returns page 1's items with a nil error after one fetch in all.
C4_SinglePage ==
    (Page1OK /\ ServerTotal <= 1)
    => /\ calls[1] = 1
       /\ \A w \in Workers : calls[w] = 0 /\ http[w] = 0 /\ wpc[w] = "idle"
       /\ pc \in {"total", "done"}
       /\ pc = "done" => ret = Return(served[1].page.Subscribers, NoErr)

C4_Witness ==
    /\ Page1OK
    /\ ServerTotal <= 0
    /\ ret.returned
    /\ Len(ret.subscribers) = 2

\* C5: if page 1 succeeds with T >= 2 and some page in 2..T fails, Subscribers
\* returns the error of one of the failed fetches, unchanged, and no subscribers.
C5_ErrorNoPartialResult ==
    (ret.returned /\ Page1OK /\ ServerTotal >= 2 /\ FailedPages # {})
    => /\ ret.err # NoErr
       /\ ret.err \in {served[n].err : n \in FailedPages}
       /\ ret.subscribers = <<>>

C5_Witness ==
    /\ ret.returned
    /\ Page1OK
    /\ Cardinality(FailedPages) >= 2
    /\ \E n \in 2..ServerTotal : served[n].done /\ served[n].err = NoErr
    /\ \E n \in FailedPages : served[n].err # ret.err

\* Every started goroutine took a slot once, gave it back once and is done.
Finished ==
    /\ ret.returned
    /\ limiter = <<>>
    /\ wg = 0
    /\ \A w \in 2..total : wpc[w] = "done" /\ acquired[w] = 1 /\ released[w] = 1

\* C6: Subscribers never deadlocks: for any T >= 2, any limit L >= 1 and any set
\* of failing pages, under fair scheduling every goroutine gets a slot, releases
\* it on success and on failure, and Subscribers returns.
C6_NoDeadlock == (pc = "loop") ~> Finished

C6_Witness ==
    /\ Finished
    /\ Limit < total - 1
    /\ \E w \in 2..total : werr[w] # NoErr
    /\ \E w \in 2..total : werr[w] = NoErr

\* C7: with an empty secret, Subscribers fails with ErrSecretMissing, sends no
\* HTTP request and takes no limiter slot.
C7_SecretMissing ==
    Secret = ""
    => /\ \A n \in PageIdx : http[n] = 0
       /\ \A w \in Workers : acquired[w] = 0 /\ wpc[w] = "idle"
       /\ limiter = <<>>
       /\ pc \in {"start", "done"}
       /\ pc = "done" => ret = Return(<<>>, ErrSecretMissing)
       /\ ErrSecretMissing \notin ({ParseError(n) : n \in PageIdx}
                                   \cup {RequestError(n) : n \in PageIdx} \cup {NoErr})

C7_Witness ==
    /\ Secret = ""
    /\ ret.returned
    /\ calls[1] = 1

Occurrences(q, t) == Cardinality({k \in 1..Len(q) : q[k] = t})
FirstIndex(q, t) == CHOOSE k \in 1..Len(q) : q[k] = t /\ \A j \in 1..(k - 1) : q[j] # t

\* C8: AddTag is idempotent: AddTag(t) twice leaves Tags as AddTag(t) once does;
\* AddTag(t) leaves Tags that contain t unchanged; and starting from empty Tags,
\* every added identifier occurs in Tags exactly once, in first-insertion order.
C8_AddTagIdempotent ==
    /\ \A t \in TagIds : AddTagOp(AddTagOp(Tags, t), t) = AddTagOp(Tags, t)
    /\ \A t \in TagIds : Occurrences(Tags, t) >= 1 => AddTagOp(Tags, t) = Tags
    /\ Tags0 = <<>> =>
        /\ \A t \in TagIds :
            Occurrences(Tags, t) = (IF Occurrences(addLog, t) >= 1 THEN 1 ELSE 0)
        /\ \A j, k \in 1..Len(Tags) :
            j < k => FirstIndex(addLog, Tags[j]) < FirstIndex(addLog, Tags[k])

C8_Witness ==
    /\ Tags0 = <<>>
    /\ Len(addLog) = 3
    /\ addLog[1] = addLog[3]
    /\ Len(Tags) = 2

\* C9: no cancellation: once page 1 has succeeded with T >= 2, subscriberPage is
\* called exactly once for each page 2..T, also for goroutines admitted after a
\* sibling has failed, and Subscribers returns only after all of them completed.
C9_NoCancellation ==
    /\ \A n \in PageIdx : calls[n] <= 1
    /\ (ret.returned /\ Page1OK /\ ServerTotal >= 2)
       => /\ \A n \in 2..ServerTotal :
                calls[n] = 1 /\ served[n].done /\ wpc[n] = "done"
          /\ \A n \in Workers : n > ServerTotal => calls[n] = 0

C9_Witness ==
    /\ ret.returned
    /\ ret.err # NoErr
    /\ Limit = 1
    /\ ServerTotal >= 3
    /\ \E n \in 2..ServerTotal : served[n].err = NoErr
    /\ served[2].err # NoErr

\* C10: the result array has length T; pages[0] is written once, with page 1,
\* before any goroutine starts; the goroutine for page i writes only pages[i-1],
\* at most once and only after a successful fetch; no slot has two writers; and
\* the array is merged only after every goroutine has finished.
C10_NoWriteContention ==
    /\ \A w \in PageIdx : \A s \in 0..(MaxPages - 1) :
        writes[w][s] > 0 => s = w - 1 /\ writes[w][s] = 1
    /\ \A w \in Workers :
        writes[w][w - 1] = 1 =>
            served[w].done /\ served[w].err = NoErr /\ wpc[w] \notin {"idle", "acquire", "call", "inflight", "store"}
    /\ (\E w \in Workers : wpc[w] # "idle") =>
            writes[1][0] = 1 /\ pages[0] = served[1].page /\ DOMAIN pages = 0..(total - 1)
    /\ (pc = "merge" \/ (ret.returned /\ ret.err = NoErr /\ total >= 2)) =>
            wg = 0 /\ \A w \in 2..total : wpc[w] = "done"

C10_Witness ==
    /\ pc = "merge"
    /\ total >= 3
    /\ \A w \in 2..total : writes[w][w - 1] = 1

====
